---- MODULE Spec2Model ----
(***************************************************************************)
(* OpenQuery desktop backend: the process bridge (bridge.rs) that drives a *)
(* Node.js child over line-delimited JSON on stdin/stdout, and the host    *)
(* commands (main.rs) that reach it through call_bridge_sync.              *)
(*                                                                         *)
(* The child process is the environment: it may emit any line at any time, *)
(* close its output or exit.  Ghost variables (emitted, handed, faithful,  *)
(* replies, ...) record the history the properties speak about; the        *)
(* program never reads them.                                               *)
(***************************************************************************)
EXTENDS Naturals, Sequences, FiniteSets, TLC

\* ------------------------------------------------------------- bounds
NumThreads == 2      \* host contexts that invoke commands concurrently
MaxCalls == 2        \* calls issued in one run (caps the id counter)
MaxPipe == 2         \* lines the child may have pending in its stdout pipe
MaxEmit == MaxCalls + 1   \* lines the child emits in one run: ready, and one per call

Threads == 1..NumThreads
Free == {}           \* a std::sync::Mutex nobody holds; held by t it is {t}

\* ------------------------------------------------- serde_json::Value
\* A value is its JSON type and its canonical text; nested content is opaque.
Null == [t |-> "null", v |-> "null"]
Str(s) == [t |-> "string", v |-> s]
Num(s) == [t |-> "number", v |-> s]
Obj(s) == [t |-> "object", v |-> s]

\* Option<T> is the set with no element (None) or one element (Some(x)).
None == {}
Some(x) == {x}

\* ------------------------------------------------------ wire text
\* One line of text on the child's stdout: whether its bytes are UTF-8,
\* whether it is syntactically JSON, and if so the document it spells: the
\* type of the top-level value and, for an object, its members in the order
\* written (a key may be written twice).
Member(k, val) == [k |-> k, val |-> val]
ObjText(mem) == [utf8 |-> TRUE, syn |-> TRUE, top |-> "object", mem |-> mem, v |-> ""]
ScalarText(val) == [utf8 |-> TRUE, syn |-> TRUE, top |-> val.t, mem |-> <<>>, v |-> val.v]
Garbage == [utf8 |-> TRUE, syn |-> FALSE, top |-> "none", mem |-> <<>>, v |-> "not json"]
BadUtf8 == [utf8 |-> FALSE, syn |-> FALSE, top |-> "none", mem |-> <<>>, v |-> "\\xff"]
\* String::new(): what `line` holds when read_line returns Ok(0) at EOF, or fails.
EmptyLine == [utf8 |-> TRUE, syn |-> FALSE, top |-> "none", mem |-> <<>>, v |-> ""]

\* Uuid::new_v4().to_string(): the n-th token generated in this session.
UuidString(n) == ToString(n)
\* An id no call of this session generates.
ForeignId == UuidString(0)

ReadySentinel == "bridge_ready"
ReadyLine == ObjText(<<Member("result", Str(ReadySentinel))>>)

\* ------------------------------------------------ serde_json::from_str
MaxIndex(S) == CHOOSE i \in S : \A j \in S : j <= i

\* The map an object's members build: a later duplicate key overwrites.
MapOf(mem) ==
  [k \in {mem[i].k : i \in DOMAIN mem} |->
     mem[MaxIndex({i \in DOMAIN mem : mem[i].k = k})].val]

from_str(text) ==
  IF text.syn
    THEN [ok |-> TRUE, val |-> [t |-> text.top, v |-> text.v, m |-> MapOf(text.mem)],
          err |-> ""]
    ELSE [ok |-> FALSE, val |-> [t |-> "none", v |-> "", m |-> MapOf(<<>>)],
          err |-> IF text.v = "" THEN "EOF while parsing a value" ELSE "expected value"]

\* Value::get(key): Some(member) on an object that has the key, else None.
get(value, key) ==
  IF value.t = "object" /\ key \in DOMAIN value.m THEN Some(value.m[key]) ELSE None

\* Value::as_str
as_str(v) == IF v.t = "string" THEN Some(v.v) ELSE None

\* Option::and_then(|v| v.as_str())
and_then_as_str(opt) == UNION {as_str(x) : x \in opt}

\* ------------------------------------------------------- Bridge::call
\* Result<Value, String>: the error is kept as its message, the literal text
\* and the raw line a format! embeds in it (at most one).
NoValue == [t |-> "none", v |-> ""]
NoMessage == [lit |-> "", raw |-> <<>>]
Ok(val) == [ok |-> TRUE, val |-> val, msg |-> NoMessage]
Err(msg) == [ok |-> FALSE, val |-> NoValue, msg |-> msg]
Message(lit) == [lit |-> lit, raw |-> <<>>]

\* Mutant of ParseFailureMessage: the message carries the parser's error only.
ParseFailureMessageWithoutRaw(e, response_line) ==
  [lit |-> "Failed to parse bridge response: " \o e, raw |-> <<>>]

\* format!("Failed to parse bridge response: {}. Raw: {}", e, response_line)
ParseFailureMessage(e, response_line) ==
  [lit |-> "Failed to parse bridge response: " \o e \o ". Raw: ", raw |-> <<response_line>>]

\* Mutant of IdMismatch: only an id that is present and differs is rejected.
IdMismatchOnlyIfPresent(response, id) ==
  and_then_as_str(get(response, "id")) \notin {None, Some(id)}

\* response.get("id").and_then(|v| v.as_str()) != Some(&id)
IdMismatch(response, id) == and_then_as_str(get(response, "id")) # Some(id)

\* error.as_str().unwrap_or("Unknown bridge error").to_string()
ErrorMessage(error) ==
  IF as_str(error) # None
    THEN Message(CHOOSE s \in as_str(error) : TRUE)
    ELSE Message("Unknown bridge error")

\* Mutant of ResultOrNull: the result is not looked up.
ResultAlwaysNull(response) == Null

\* response.get("result").cloned().unwrap_or(Value::Null)
ResultOrNull(response) ==
  IF get(response, "result") # None
    THEN CHOOSE r \in get(response, "result") : TRUE
    ELSE Null

\* Mutant of Decoded: a response without a result field is an error.
DecodedResultRequired(response_line, id) ==
  LET parsed == from_str(response_line) IN
  IF ~parsed.ok THEN Err(ParseFailureMessage(parsed.err, response_line))
  ELSE IF IdMismatch(parsed.val, id) THEN Err(Message("Response ID mismatch"))
  ELSE IF get(parsed.val, "error") # None
    THEN Err(ErrorMessage(CHOOSE e \in get(parsed.val, "error") : TRUE))
  ELSE IF get(parsed.val, "result") = None THEN Err(Message("Missing result"))
  ELSE Ok(ResultOrNull(parsed.val))

\* Lines 107-120 of Bridge::call: what the call returns for the line it read.
Decoded(response_line, id) ==
  LET parsed == from_str(response_line) IN
  IF ~parsed.ok THEN Err(ParseFailureMessage(parsed.err, response_line))
  ELSE IF IdMismatch(parsed.val, id) THEN Err(Message("Response ID mismatch"))
  ELSE IF get(parsed.val, "error") # None
    THEN Err(ErrorMessage(CHOOSE e \in get(parsed.val, "error") : TRUE))
  ELSE Ok(ResultOrNull(parsed.val))

\* --------------------------------------------------- Bridge::read_ready
\* Mutant of IsReady: any message with a result field is taken as readiness.
IsReadyAnyResult(msg) == get(msg, "result") # None

\* msg.get("result").and_then(|v| v.as_str()) == Some("bridge_ready")
IsReady(msg) == and_then_as_str(get(msg, "result")) = Some(ReadySentinel)

\* Mutant of ReadyAccepted: spawn returns the handle whatever the first line is.
ReadyAcceptedAlways(first) == TRUE

\* Lines 72-78: Ok(()) or an error, for the first line read.
ReadyAccepted(first) ==
  /\ first.utf8
  /\ from_str(first).ok
  /\ IsReady(from_str(first).val)

\* ------------------------------------------- BufReader::new + read_line
\* Mutant of CanRead: the read waits for data and does not see the stream close.
CanReadOnlyData(buffered, closed) == buffered # <<>>

\* Mutant of CanRead: the read gives up at once instead of blocking.
CanReadWithoutBlocking(buffered, closed) == TRUE

\* read_line blocks until the pipe has data or is closed.
CanRead(buffered, closed) == buffered # <<>> \/ closed

\* The line read_line returns: the first one pending, or nothing at EOF.
LineRead(buffered) == IF buffered # <<>> THEN Head(buffered) ELSE EmptyLine

\* What is left in the pipe afterwards.  The BufReader is built for this one
\* read and dropped after it: its first fill takes every pending byte (lines
\* are far below its 8 KiB capacity), and what it buffered beyond the first
\* newline dies with it.
LeftInPipe(buffered) == <<>>

\* ------------------------------------- Bridge::resolve_node_binary, spawn
\* The value of an environment variable is None (unset) or Some(path).
NodeOverridePath == "/custom/bin/node"
ScriptOverridePath == "/custom/bridge/main.js"
\* env!("BRIDGE_SCRIPT_PATH"): the path build.rs baked in.
BakedScriptPath == "<manifest>/../bridge/dist/main.js"

\* The well-known installation paths, in the order they are tried.
Candidates == <<"/opt/homebrew/bin/node", "/usr/local/bin/node", "/usr/bin/node">>

\* Path::new(p).exists()
Exists(p, disk) == p \in disk

\* Mutant of resolve_node_binary: the well-known paths are tried before the override.
resolve_node_binary_candidates_first(environment, disk) ==
  LET found == {i \in DOMAIN Candidates : Exists(Candidates[i], disk)} IN
  IF found # {}
    THEN Candidates[CHOOSE i \in found : \A j \in found : i <= j]
    ELSE IF \E p \in environment.node : Exists(p, disk)
      THEN CHOOSE p \in environment.node : TRUE
      ELSE "node"

\* bridge.rs 15-29
resolve_node_binary(environment, disk) ==
  IF \E p \in environment.node : Exists(p, disk)
    THEN CHOOSE p \in environment.node : TRUE
    ELSE LET found == {i \in DOMAIN Candidates : Exists(Candidates[i], disk)} IN
         IF found # {}
           THEN Candidates[CHOOSE i \in found : \A j \in found : i <= j]
           ELSE "node"

\* bridge.rs 34-35: std::env::var("OPENQUERY_BRIDGE_PATH").unwrap_or_else(baked)
bridge_script(environment) ==
  IF environment.script # None
    THEN CHOOSE p \in environment.script : TRUE
    ELSE BakedScriptPath

\* ------------------------------------------------------------ keychain.rs
\* Result<Option<String>, String>; the unit of Result<(), String> is None.
KeyOk(value) == [ok |-> TRUE, value |-> value, err |-> ""]
KeyErr(e) == [ok |-> FALSE, value |-> None, err |-> e]

\* What the credential store answers: Ok (with the password for a read, with
\* "" otherwise), Error::NoEntry, or one of its other errors.
StoreOk(pw) == [kind |-> "Ok", pw |-> pw]
StoreErr(kind) == [kind |-> kind, pw |-> ""]
NoEntry == StoreErr("NoEntry")
StoreFailures == {StoreErr("PlatformFailure"), StoreErr("NoStorageAccess")}
\* Entry::new failed: the store is not asked.
NotAsked == StoreErr("NotAsked")

\* Entry::new(SERVICE_NAME, profile_id): Ok or an error, which `?` returns.
EntryResults == {StoreOk("")} \cup StoreFailures

\* keychain.rs 9-13
set_password(entry, reply) ==
  IF entry.kind # "Ok" THEN KeyErr(entry.kind)
  ELSE IF reply.kind # "Ok" THEN KeyErr(reply.kind)
  ELSE KeyOk(None)

\* keychain.rs 15-22
get_password(entry, reply) ==
  IF entry.kind # "Ok" THEN KeyErr(entry.kind)
  ELSE CASE reply.kind = "Ok" -> KeyOk(Some(reply.pw))
         [] reply.kind = "NoEntry" -> KeyOk(None)
         [] OTHER -> KeyErr(reply.kind)

\* Mutant of delete_password: a missing entry is reported like any other error.
delete_password_strict(entry, reply) ==
  IF entry.kind # "Ok" THEN KeyErr(entry.kind)
  ELSE CASE reply.kind = "Ok" -> KeyOk(None)
         [] OTHER -> KeyErr(reply.kind)

\* keychain.rs 24-31
delete_password(entry, reply) ==
  IF entry.kind # "Ok" THEN KeyErr(entry.kind)
  ELSE CASE reply.kind = "Ok" -> KeyOk(None)
         [] reply.kind = "NoEntry" -> KeyOk(None)
         [] OTHER -> KeyErr(reply.kind)

\* ------------------------------------------------------------- state
VARIABLES
  host,        \* main(): "start", "handshake", "serving", "aborted", "exited"
  child,       \* the Node process: "none", "running", "exited", "killed"
  pipe,        \* lines pending in the child's stdout pipe
  sent,        \* number of request lines written to the child's stdin
  lastRequest, \* the last request line written to the child's stdin
  stateLock,   \* AppState.bridge: Mutex<Option<Bridge>>
  childLock,   \* Bridge.child: Mutex<Child>
  uuids,       \* number of ids generated so far
  pc,          \* per host context: its position in call_bridge_sync / Bridge::call
  cmd,         \* per host context: the method and params of its call
  id,          \* per host context: the ordinal of the id of its call
  line,        \* per host context: response_line
  returned,    \* the call that returned last, and what call_bridge_sync returned
  killed,      \* Drop: "no" (not run), or the outcome of child.kill(): "ok", "err"
  raised,      \* an error or panic left Drop for the host
  \* ghost history
  emitted,     \* number of lines the child has written to its stdout
  handed,      \* number of those lines read_line has returned to the bridge
  firstLine,   \* what read_ready read: <<>> before, <<line>> after
  faithful,    \* the child has kept the protocol so far
  replies,     \* while faithful: replies[k] is the line emitted for the k-th request
  reqNo,       \* per host context: the ordinal of its request among those sent
  readAt,      \* per host context: `sent` when it read its line (0: no line)
  \* the process environment, and what spawn made of it
  env,         \* OPENQUERY_NODE_PATH and OPENQUERY_BRIDGE_PATH, each None or Some(path)
  disk,        \* the paths that exist
  launch,      \* <<>>, or <<[program, arg]>>: the command line spawn() has run
  \* the credential store
  store,       \* per profile id: None, or Some(password)
  kc           \* the last keychain operation: what was asked, answered and returned

vars == <<host, child, pipe, sent, lastRequest, stateLock, childLock, uuids, pc, cmd,
          id, line, returned, killed, raised, emitted, handed, firstLine, faithful,
          replies, reqNo, readAt, env, disk, launch, store, kc>>

\* The bridge, its child and the host contexts calling it.
bridgeVars == <<host, child, pipe, sent, lastRequest, stateLock, childLock, uuids, pc,
                cmd, id, line, returned, killed, raised, emitted, handed, firstLine,
                faithful, replies, reqNo, readAt>>

keychainVars == <<store, kc>>

\* The variables of main.rs and bridge.rs after spawn's command line is built.
envVars == <<env, disk>>

hostVars == <<host, killed, raised, firstLine>>
lockVars == <<stateLock, childLock>>
localVars == <<cmd, id, line, reqNo, readAt>>
childGhost == <<emitted, faithful, replies>>

\* The commands of main.rs (two of them: the bridge passes both through alike).
Commands ==
  { [method |-> "profiles.list", params |-> Obj("{}")],
    [method |-> "schema.search", params |-> Obj("{\"query\":\"q\"}")] }

NoCommand == [method |-> "", params |-> Null]
NoRequest == [id |-> ForeignId, method |-> "", params |-> Null]
NoReturn == [stage |-> "none", id |-> 0, cmd |-> NoCommand, line |-> EmptyLine,
             reqNo |-> 0, readAt |-> 0, outcome |-> Err(NoMessage)]

\* A process that has exited or was killed has closed both ends of its pipes.
StdinOpen == child = "running"
StdoutClosed == child \in {"exited", "killed"}

\* The profile ids and passwords the commands are called with.
ProfileIds == {"alpha", "beta"}
Passwords == {"pw1", "pw2"}

NoOperation == [op |-> "none", id |-> "", had |-> None, reply |-> NotAsked,
                out |-> KeyErr(""), prev |-> "none"]

InitBridge ==
  /\ host = "start"
  /\ child = "none"
  /\ pipe = <<>>
  /\ sent = 0
  /\ lastRequest = NoRequest
  /\ stateLock = Free
  /\ childLock = Free
  /\ uuids = 0
  /\ pc = [t \in Threads |-> "idle"]
  /\ cmd = [t \in Threads |-> NoCommand]
  /\ id = [t \in Threads |-> 0]
  /\ line = [t \in Threads |-> EmptyLine]
  /\ returned = NoReturn
  /\ killed = "no"
  /\ raised = FALSE
  /\ emitted = 0
  /\ handed = 0
  /\ firstLine = <<>>
  /\ faithful = TRUE
  /\ replies = <<>>
  /\ reqNo = [t \in Threads |-> 0]
  /\ readAt = [t \in Threads |-> 0]
  /\ launch = <<>>
  /\ store = [p \in ProfileIds |-> None]
  /\ kc = NoOperation

\* A plain installation: no override is set, node is at /usr/bin/node.
Init ==
  /\ InitBridge
  /\ env = [node |-> None, script |-> None]
  /\ disk = {Candidates[3]}

\* ------------------------------------------------------ impl Drop
\* Mutant of KillAttempted: the handle is discarded without a kill.
KillNeverAttempted(lockOk) == FALSE

\* if let Ok(mut child) = self.child.lock(): nothing in this program panics
\* while holding the child mutex, so it is never poisoned and lock() is Ok.
KillAttempted(lockOk) == lockOk

\* Mutant of DropRaises: child.kill().expect(..) in place of `let _ =`.
DropRaisesKillFailure(killResult) == killResult = "err"

\* let _ = child.kill(): the io::Result is discarded.
DropRaises(killResult) == FALSE

\* The whole of drop(): kill is tried, its result r is the environment's.
Drop(r) ==
  /\ killed' = IF KillAttempted(TRUE) THEN r ELSE "no"
  /\ child' = IF KillAttempted(TRUE) /\ r = "ok" THEN "killed" ELSE child
  /\ raised' = (KillAttempted(TRUE) /\ DropRaises(r))

KillResults == {"ok", "err"}

\* ------------------------------------------------ Bridge::spawn, main
\* bridge.rs 34-52: resolve the script and the binary, then
\* Command::new(node_binary).arg(bridge_script).spawn(): Err aborts main
\* through expect().
Spawn(ok) ==
  /\ host = "start"
  /\ launch' = <<[program |-> resolve_node_binary(env, disk), arg |-> bridge_script(env)]>>
  /\ host' = IF ok THEN "handshake" ELSE "aborted"
  /\ child' = IF ok THEN "running" ELSE "none"
  /\ UNCHANGED <<envVars, keychainVars>>
  /\ UNCHANGED <<pipe, sent, lastRequest, lockVars, uuids, pc, localVars, returned,
                 killed, raised, emitted, handed, firstLine, faithful, replies>>

\* bridge.read_ready()?; Ok(bridge) -- and on Err the bridge built at line 56
\* is dropped as spawn returns, and main panics in expect().
ReadReady(r) ==
  /\ host = "handshake"
  /\ childLock = Free
  /\ CanRead(pipe, StdoutClosed)
  /\ LET first == LineRead(pipe) IN
     /\ firstLine' = <<first>>
     /\ pipe' = LeftInPipe(pipe)
     /\ handed' = IF pipe # <<>> THEN handed + 1 ELSE handed
     /\ IF ReadyAccepted(first)
          THEN /\ host' = "serving"
               /\ UNCHANGED <<child, killed, raised>>
          ELSE /\ host' = "aborted"
               /\ Drop(r)
  /\ UNCHANGED <<envVars, launch, keychainVars>>
  /\ UNCHANGED <<sent, lastRequest, lockVars, uuids, pc, localVars, returned, childGhost>>

\* The managed AppState goes away with the application: the bridge is dropped.
\* No command is running then (each borrows the state for its whole call).
Shutdown(r) ==
  /\ host = "serving"
  /\ \A t \in Threads : pc[t] = "idle"
  /\ host' = "exited"
  /\ Drop(r)
  /\ UNCHANGED <<envVars, launch, keychainVars>>
  /\ UNCHANGED <<pipe, sent, lastRequest, lockVars, uuids, pc, localVars, returned,
                 emitted, handed, firstLine, faithful, replies>>

\* ------------------------------------------- call_bridge_sync, Bridge::call
\* Mutant of CanLock: a lock that never blocks.
CanLockAlways(mutex) == TRUE

\* Mutex::lock blocks until nobody holds the mutex.
CanLock(mutex) == mutex = Free

\* call_bridge_sync returns on context t: its frame (request, line) is gone,
\* and `returned` keeps what the call was and what the UI got for it.
\* stage: where the call ended, "write", "read" or "decode".
Returns(t, stage, responseLine, at, result) ==
  /\ returned' = [stage |-> stage, id |-> id[t], cmd |-> cmd[t], line |-> responseLine,
                  reqNo |-> reqNo[t], readAt |-> at, outcome |-> result]
  /\ pc' = [pc EXCEPT ![t] = "idle"]
  /\ cmd' = [cmd EXCEPT ![t] = NoCommand]
  /\ id' = [id EXCEPT ![t] = 0]
  /\ line' = [line EXCEPT ![t] = EmptyLine]
  /\ reqNo' = [reqNo EXCEPT ![t] = 0]
  /\ readAt' = [readAt EXCEPT ![t] = 0]

\* A #[tauri::command] is invoked on host context t.
Invoke(t) ==
  /\ host = "serving"
  /\ pc[t] = "idle"
  /\ uuids + Cardinality({u \in Threads : pc[u] = "lockState"}) < MaxCalls
  /\ pc' = [pc EXCEPT ![t] = "lockState"]
  /\ UNCHANGED <<envVars, launch, keychainVars>>
  /\ UNCHANGED <<hostVars, child, pipe, sent, lastRequest, lockVars, uuids, localVars,
                 returned, handed, childGhost>>

\* main.rs 20-21 and bridge.rs 83-88: take the state lock, find Some(bridge)
\* (main stored Some and nothing takes it out), generate the id of the call
\* and build the request for the command c that was invoked.
LockState(t, c) ==
  /\ pc[t] = "lockState"
  /\ CanLock(stateLock)
  /\ stateLock' = {t}
  /\ uuids' = uuids + 1
  /\ id' = [id EXCEPT ![t] = uuids + 1]
  /\ cmd' = [cmd EXCEPT ![t] = c]
  /\ pc' = [pc EXCEPT ![t] = "lockChild"]
  /\ UNCHANGED <<envVars, launch, keychainVars>>
  /\ UNCHANGED <<hostVars, child, pipe, sent, lastRequest, childLock, line, reqNo,
                 readAt, returned, handed, childGhost>>

\* bridge.rs 91: self.child.lock()
LockChild(t) ==
  /\ pc[t] = "lockChild"
  /\ CanLock(childLock)
  /\ childLock' = {t}
  /\ pc' = [pc EXCEPT ![t] = "write"]
  /\ UNCHANGED <<envVars, launch, keychainVars>>
  /\ UNCHANGED <<hostVars, child, pipe, sent, lastRequest, stateLock, uuids, localVars,
                 returned, handed, childGhost>>

\* Mutant of Request: the request is given a second, different id.
RequestWithOtherId(n, c) ==
  [id |-> UuidString(n + MaxCalls), method |-> c.method, params |-> c.params]

\* serde_json::json!({"id": id, "method": method, "params": params})
Request(n, c) == [id |-> UuidString(n), method |-> c.method, params |-> c.params]

\* Mutant of Write: the failure exit keeps the child lock.
WriteKeepingChildLock(t) ==
  /\ pc[t] = "write"
  /\ IF StdinOpen
       THEN /\ sent' = sent + 1
            /\ lastRequest' = Request(id[t], cmd[t])
            /\ reqNo' = [reqNo EXCEPT ![t] = sent + 1]
            /\ pc' = [pc EXCEPT ![t] = "read"]
            /\ UNCHANGED <<lockVars, cmd, id, line, readAt, returned>>
       ELSE /\ Returns(t, "write", EmptyLine, 0, Err(Message("Broken pipe")))
            /\ childLock' = childLock
            /\ stateLock' = Free
            /\ UNCHANGED <<sent, lastRequest>>
  /\ UNCHANGED <<envVars, launch, keychainVars>>
  /\ UNCHANGED <<hostVars, child, pipe, uuids, handed, childGhost>>

\* bridge.rs 94-97: write_all and flush.  On a closed stdin they fail, `?`
\* returns the io error, and both guards are dropped on the way out.
Write(t) ==
  /\ pc[t] = "write"
  /\ IF StdinOpen
       THEN /\ sent' = sent + 1
            /\ lastRequest' = Request(id[t], cmd[t])
            /\ reqNo' = [reqNo EXCEPT ![t] = sent + 1]
            /\ pc' = [pc EXCEPT ![t] = "read"]
            /\ UNCHANGED <<lockVars, cmd, id, line, readAt, returned>>
       ELSE /\ Returns(t, "write", EmptyLine, 0, Err(Message("Broken pipe")))
            /\ childLock' = Free
            /\ stateLock' = Free
            /\ UNCHANGED <<sent, lastRequest>>
  /\ UNCHANGED <<envVars, launch, keychainVars>>
  /\ UNCHANGED <<hostVars, child, pipe, uuids, handed, childGhost>>

\* bridge.rs 100-105: one read_line through a fresh BufReader; the child guard
\* is dropped at the end of the block.  Invalid UTF-8 makes read_line fail,
\* and `?` returns the io error, dropping the state guard too.
Read(t) ==
  /\ pc[t] = "read"
  /\ CanRead(pipe, StdoutClosed)
  /\ LET got == LineRead(pipe)
         at == IF pipe # <<>> THEN sent ELSE 0 IN
     /\ pipe' = LeftInPipe(pipe)
     /\ handed' = IF pipe # <<>> THEN handed + 1 ELSE handed
     /\ childLock' = Free
     /\ IF got.utf8
          THEN /\ line' = [line EXCEPT ![t] = got]
               /\ readAt' = [readAt EXCEPT ![t] = at]
               /\ pc' = [pc EXCEPT ![t] = "decode"]
               /\ UNCHANGED <<stateLock, cmd, id, reqNo, returned>>
          ELSE /\ Returns(t, "read", got, at,
                          Err(Message("stream did not contain valid UTF-8")))
               /\ stateLock' = Free
  /\ UNCHANGED <<envVars, launch, keychainVars>>
  /\ UNCHANGED <<hostVars, child, sent, lastRequest, uuids, childGhost>>

\* bridge.rs 107-120 and main.rs 22: decode the line, map the error to its
\* string, return; the state guard is dropped.
Decode(t) ==
  /\ pc[t] = "decode"
  /\ Returns(t, "decode", line[t], readAt[t], Decoded(line[t], UuidString(id[t])))
  /\ stateLock' = Free
  /\ UNCHANGED <<envVars, launch, keychainVars>>
  /\ UNCHANGED <<hostVars, child, pipe, sent, lastRequest, childLock, uuids, handed,
                 childGhost>>

\* ------------------------------------------------------ the child
Results == {Obj("{\"a\":1}"), Str("ok")}

\* {"id": i, "result": r}
ResultLine(i, r) == ObjText(<<Member("id", Str(i)), Member("result", r)>>)
\* {"id": i, "error": e}
ErrorLine(i, e) == ObjText(<<Member("id", Str(i)), Member("error", e)>>)

StringError == Str("boom")
StructuredError == Obj("{\"code\":1}")

\* The two response shapes of the wire format, for the request with id i.
Responses(i) ==
  {ResultLine(i, r) : r \in Results} \cup {ErrorLine(i, e) : e \in {StringError, StructuredError}}

\* Any other line a child can put on its stdout.
OtherLines(i) ==
  { ObjText(<<Member("id", Str(i)), Member("result", Obj("{\"a\":1}")), Member("error", Null)>>),
    ObjText(<<Member("id", Str(i))>>),
    ObjText(<<Member("id", Str(ForeignId)), Member("id", Str(i)), Member("result", Null)>>),
    ResultLine(ForeignId, Obj("{\"a\":1}")),
    ObjText(<<Member("id", Num(i)), Member("error", StringError)>>),
    ScalarText(Num("42")),
    Garbage,
    BadUtf8,
    ReadyLine }

\* A line written behind a pending one is never decoded (LeftInPipe): two
\* representatives of such lines are enough, one valid and one stray.
QueuedLines(i) == {ResultLine(i, Obj("{\"a\":1}")), ReadyLine}

ChildLines ==
  IF pipe = <<>>
    THEN Responses(lastRequest.id) \cup OtherLines(lastRequest.id)
    ELSE QueuedLines(lastRequest.id)

\* The child writes one line to its stdout.
ChildEmit(l) ==
  /\ child = "running"
  /\ Len(pipe) < MaxPipe
  /\ emitted < MaxEmit
  /\ pipe' = Append(pipe, l)
  /\ emitted' = emitted + 1
  /\ LET keeps == IF emitted = 0
                    THEN l = ReadyLine /\ sent = 0
                    ELSE Len(replies) < sent /\ l \in Responses(lastRequest.id) IN
     /\ faithful' = (faithful /\ keeps)
     /\ replies' = IF faithful /\ keeps /\ emitted > 0 THEN Append(replies, l)
                   ELSE IF faithful /\ keeps THEN replies ELSE <<>>
  /\ UNCHANGED <<envVars, launch, keychainVars>>
  /\ UNCHANGED <<hostVars, child, sent, lastRequest, lockVars, uuids, pc, localVars,
                 returned, handed>>

\* The child exits (or closes its stdout and stdin): what it wrote stays readable.
ChildExit ==
  /\ child = "running"
  /\ child' = "exited"
  /\ faithful' = FALSE
  /\ replies' = <<>>
  /\ UNCHANGED <<envVars, launch, keychainVars>>
  /\ UNCHANGED <<host, killed, raised, firstLine, pipe, sent, lastRequest, lockVars,
                 uuids, pc, localVars, returned, handed, emitted>>

Next ==
  \/ \E ok \in BOOLEAN : Spawn(ok)
  \/ \E r \in KillResults : ReadReady(r)
  \/ \E r \in KillResults : Shutdown(r)
  \/ \E t \in Threads : Invoke(t)
  \/ \E t \in Threads, c \in Commands : LockState(t, c)
  \/ \E t \in Threads : LockChild(t)
  \/ \E t \in Threads : Write(t)
  \/ \E t \in Threads : Read(t)
  \/ \E t \in Threads : Decode(t)
  \/ \E l \in ChildLines : ChildEmit(l)
  \/ ChildExit

Spec == Init /\ [][Next]_vars

\* ------------------------------------------------------- fair scheduling
\* Every host context that can take its next step eventually takes it: the
\* contexts are OS threads, and a thread that is runnable, or that waits on a
\* mutex that stays free, or on a pipe that has data or is closed, gets to run.
\* Nothing is assumed of the child here.
Fairness ==
  \A t \in Threads :
    /\ WF_vars(\E c \in Commands : LockState(t, c))
    /\ WF_vars(LockChild(t))
    /\ WF_vars(Write(t))
    /\ WF_vars(Read(t))
    /\ WF_vars(Decode(t))

FairSpec == Init /\ [][Next]_vars /\ Fairness

\* ------------------------------------------------- the keychain commands
\* The store's answers to a read and to a delete of an id: Ok if it holds an
\* entry for the id, NoEntry if not, or a failure of the store itself.
ReadReplies(p) ==
  (IF store[p] # None THEN {StoreOk(pw) : pw \in store[p]} ELSE {NoEntry}) \cup StoreFailures
DeleteReplies(p) ==
  (IF store[p] # None THEN {StoreOk("")} ELSE {NoEntry}) \cup StoreFailures
WriteReplies == {StoreOk("")} \cup StoreFailures

\* The operation that has just run, and the one before it on the same id.
Operation(op, p, reply, out) ==
  [op |-> op, id |-> p, had |-> store[p], reply |-> reply, out |-> out,
   prev |-> IF kc.id = p /\ kc.out.ok THEN kc.op ELSE "none"]

\* main.rs 65-68: keychain_set
KeychainSet(p, pw, entry) ==
  /\ \E reply \in IF entry.kind = "Ok" THEN WriteReplies ELSE {NotAsked} :
       /\ store' = IF reply.kind = "Ok" THEN [store EXCEPT ![p] = Some(pw)] ELSE store
       /\ kc' = Operation("set", p, reply, set_password(entry, reply))
  /\ UNCHANGED <<bridgeVars, envVars, launch>>

\* main.rs 70-73: keychain_get
KeychainGet(p, entry) ==
  /\ \E reply \in IF entry.kind = "Ok" THEN ReadReplies(p) ELSE {NotAsked} :
       kc' = Operation("get", p, reply, get_password(entry, reply))
  /\ UNCHANGED <<bridgeVars, envVars, launch, store>>

\* main.rs 75-78: keychain_delete
KeychainDelete(p, entry) ==
  /\ \E reply \in IF entry.kind = "Ok" THEN DeleteReplies(p) ELSE {NotAsked} :
       /\ store' = IF reply.kind = "Ok" THEN [store EXCEPT ![p] = None] ELSE store
       /\ kc' = Operation("delete", p, reply, delete_password(entry, reply))
  /\ UNCHANGED <<bridgeVars, envVars, launch>>

NextKeychain ==
  \/ \E p \in ProfileIds, pw \in Passwords, entry \in EntryResults : KeychainSet(p, pw, entry)
  \/ \E p \in ProfileIds, entry \in EntryResults : KeychainGet(p, entry)
  \/ \E p \in ProfileIds, entry \in EntryResults : KeychainDelete(p, entry)

\* The keychain commands, in any order.
SpecKeychain == Init /\ [][NextKeychain]_vars

\* ---------------------------------------------- spawn in every environment
\* The paths whose existence spawn's command line can depend on.
Paths == {NodeOverridePath, ScriptOverridePath} \cup {Candidates[i] : i \in DOMAIN Candidates}

\* Every setting of the two override variables.
Environments ==
  [node : {None, Some(NodeOverridePath)}, script : {None, Some(ScriptOverridePath)}]

InitResolve ==
  /\ InitBridge
  /\ env \in Environments
  /\ disk \in SUBSET Paths

NextResolve == \E ok \in BOOLEAN : Spawn(ok)

\* spawn() run once in each environment.
SpecResolve == InitResolve /\ [][NextResolve]_vars

\* =============================================================== properties
\* Helpers of the properties.  They read the wire text directly, not through
\* from_str and get.

\* The value of the last member of an object text with the given key, as an Option.
LastValue(text, key) ==
  {text.mem[j].val : j \in {j \in DOMAIN text.mem :
      /\ text.mem[j].k = key
      /\ \A m \in DOMAIN text.mem : m > j => text.mem[m].k # key}}

Keys(text) == {text.mem[j].k : j \in DOMAIN text.mem}
Range(seq) == {seq[j] : j \in DOMAIN seq}

\* The text is a JSON object whose id is exactly the string i.
CarriesId(text, i) ==
  /\ text.syn
  /\ text.top = "object"
  /\ LastValue(text, "id") = {Str(i)}

\* The text is the wire format's {"id": i, "result": r}.
IsResultResponse(text, i) ==
  /\ CarriesId(text, i)
  /\ Len(text.mem) = 2
  /\ Keys(text) = {"id", "result"}

\* The text is a readiness message: JSON whose result is the sentinel string.
IsReadyText(text) ==
  /\ text.utf8
  /\ text.syn
  /\ text.top = "object"
  /\ LastValue(text, "result") = {Str(ReadySentinel)}

InFlight(t) == pc[t] \in {"write", "read"}

\* C1: at most one call is in flight: while a call is between taking the
\* child lock and having read its response line, it holds the lock and no other
\* host context is at the point of writing to the child or reading from it.
TheoremC1 ==
  \A t \in Threads :
    InFlight(t) =>
      /\ childLock = {t}
      /\ \A u \in Threads \ {t} : ~InFlight(u)

\* One call has written its request and waits for the line; another context
\* has invoked a command and is blocked on the lock.
WitnessC1 ==
  \E t, u \in Threads :
    /\ t # u
    /\ pc[t] = "read"
    /\ pc[u] = "lockState"

\* C2: a call returns success only when the line it read carries exactly the
\* id of its own request; a line with another id, no id or a non-string id
\* gives a failure whatever its result and error fields hold.
TheoremC2 ==
  returned.outcome.ok =>
    /\ returned.stage = "decode"
    /\ CarriesId(returned.line, UuidString(returned.id))

\* A parsable line with a result field and not the call's id was answered
\* with a failure.
WitnessC2 ==
  /\ returned.stage = "decode"
  /\ returned.line.syn
  /\ LastValue(returned.line, "result") # {}
  /\ ~CarriesId(returned.line, UuidString(returned.id))
  /\ ~returned.outcome.ok

\* C3 (as claimed): a response with the call's id and an error field, the
\* error a string or a structured value, gives a failure whose message shows
\* the content of the error field.
ClaimC3 ==
  \A e \in LastValue(returned.line, "error") :
    ( /\ returned.stage = "decode"
      /\ CarriesId(returned.line, UuidString(returned.id))
      /\ e.t \in {"string", "object"} )
    => /\ ~returned.outcome.ok
       /\ returned.outcome.msg.lit = e.v

\* C4: a well-formed response {"id": <own id>, "result": r} makes the call
\* return success with exactly r, for every command.
TheoremC4 ==
  ( /\ returned.stage = "decode"
    /\ IsResultResponse(returned.line, UuidString(returned.id)) )
  => /\ returned.outcome.ok
     /\ {returned.outcome.val} = LastValue(returned.line, "result")

\* schema.search got back the object the child put in the result field.
WitnessC4 ==
  /\ returned.stage = "decode"
  /\ returned.cmd.method = "schema.search"
  /\ IsResultResponse(returned.line, UuidString(returned.id))
  /\ returned.outcome = Ok(Obj("{\"a\":1}"))

\* C5: a bridge handle exists (the host serves calls, or did) only if the
\* first line read was a readiness message; after any other first line, or
\* EOF, startup is aborted and no call is ever started.
TheoremC5 ==
  /\ (host \in {"serving", "exited"} \/ uuids > 0 \/ \E t \in Threads : pc[t] # "idle")
       => (firstLine # <<>> /\ IsReadyText(firstLine[1]))
  /\ (firstLine # <<>> /\ ~IsReadyText(firstLine[1]))
       => (host = "aborted" /\ sent = 0)

\* The first line was a JSON message with a result other than the sentinel,
\* and startup was aborted.
WitnessC5 ==
  /\ host = "aborted"
  /\ firstLine # <<>>
  /\ firstLine[1].syn
  /\ LastValue(firstLine[1], "result") # {}
  /\ ~IsReadyText(firstLine[1])

\* C6: with a child that answers each request with one line echoing its id,
\* every call returns the decoding of the line emitted for its own request:
\* the result the child gave, or the failure it reported, never a mismatch.
TheoremC6 ==
  (faithful /\ returned.stage # "none") =>
    /\ returned.stage = "decode"
    /\ returned.reqNo \in DOMAIN replies
    /\ returned.line = replies[returned.reqNo]
    /\ CarriesId(returned.line, UuidString(returned.id))
    /\ returned.outcome.msg.lit # "Response ID mismatch"
    /\ returned.outcome.ok <=> LastValue(returned.line, "result") # {}
    /\ returned.outcome.ok => {returned.outcome.val} = LastValue(returned.line, "result")

\* The second of two back-to-back calls has returned its own result; the two
\* replies carried different ids.
WitnessC6 ==
  /\ faithful
  /\ returned.reqNo = 2
  /\ returned.outcome.ok
  /\ Len(replies) = 2
  /\ LastValue(replies[1], "id") # LastValue(replies[2], "id")

\* C7 (as claimed): the lines read are in 1:1 correspondence with the
\* readiness signal and the requests sent: the handshake line is read in
\* spawn, a line read in a call is read by the call whose request was sent
\* last, and every line the child has written is either still pending or was
\* handed to the bridge: none is skipped or dropped.
ClaimC7 ==
  /\ host \in {"serving", "exited"} => (firstLine # <<>> /\ IsReadyText(firstLine[1]))
  /\ \A t \in Threads : pc[t] = "decode" => readAt[t] \in {0, reqNo[t]}
  /\ handed <= sent + 1
  /\ host = "serving" => emitted = handed + Len(pipe)

\* C8: whenever the bridge handle has been discarded (at shutdown, or when
\* the handshake failed), a kill of the child was attempted and no failure of
\* it reached the host.
TheoremC8 ==
  (host = "exited" \/ (host = "aborted" /\ firstLine # <<>>)) =>
    /\ killed # "no"
    /\ ~raised

\* The handle was discarded after a call had failed on an id mismatch, and
\* the kill failed.
WitnessC8 ==
  /\ host = "exited"
  /\ killed = "err"
  /\ returned.outcome.msg.lit = "Response ID mismatch"

\* A call has written its request, and the child has neither answered nor
\* closed its output.
Hung(t) == pc[t] = "read" /\ pipe = <<>> /\ ~StdoutClosed

\* C9: as long as the child neither emits a line nor closes its output, the
\* call that waits for it does not return and keeps both locks, no call
\* returns, and every other context stays idle or blocked on the lock.
TheoremC9 ==
  [][ \A t \in Threads :
        (Hung(t) /\ pipe' = <<>> /\ ~StdoutClosed') =>
          /\ pc'[t] = "read"
          /\ stateLock = {t} /\ stateLock' = {t}
          /\ childLock = {t} /\ childLock' = {t}
          /\ returned' = returned
          /\ \A u \in Threads \ {t} : pc'[u] \in {"idle", "lockState"} ]_vars

\* A call waits on a silent child while another context is blocked on the lock.
WitnessC9 ==
  \E t, u \in Threads :
    /\ t # u
    /\ Hung(t)
    /\ pc[u] = "lockState"

\* C10: a line that does not parse as JSON makes the call return a failure
\* whose message contains the raw line.
TheoremC10 ==
  (returned.stage = "decode" /\ ~returned.line.syn) =>
    /\ ~returned.outcome.ok
    /\ returned.line \in Range(returned.outcome.msg.raw)

\* The call read a line that is not JSON.
WitnessC10 ==
  /\ returned.stage = "decode"
  /\ returned.line = Garbage
  /\ ~returned.outcome.ok

\* ---------------------------------------------------------------- spawn
\* The first of the well-known paths that exists, as an Option.
FirstWellKnown ==
  IF Candidates[1] \in disk THEN Some(Candidates[1])
  ELSE IF Candidates[2] \in disk THEN Some(Candidates[2])
  ELSE IF Candidates[3] \in disk THEN Some(Candidates[3])
  ELSE None

\* C11: both overrides are used only when the path they name exists; when
\* OPENQUERY_BRIDGE_PATH names a path that does not exist, spawn starts the
\* child with the built-in entry point, not with that path.
ClaimC11 ==
  launch # <<>> =>
    /\ launch[1].program = NodeOverridePath => NodeOverridePath \in disk
    /\ launch[1].arg = ScriptOverridePath => ScriptOverridePath \in disk
    /\ (env.script # None /\ ScriptOverridePath \notin disk) =>
         launch[1].arg = BakedScriptPath

\* C12: for every setting of OPENQUERY_NODE_PATH and every combination of
\* existing paths, the binary spawn runs is the override if it is set and
\* exists, else the first existing well-known path in the order
\* /opt/homebrew/bin/node, /usr/local/bin/node, /usr/bin/node, else "node".
TheoremC12 ==
  launch # <<>> =>
    /\ (env.node # None /\ NodeOverridePath \in disk) =>
         launch[1].program = NodeOverridePath
    /\ (env.node = None \/ NodeOverridePath \notin disk) =>
         /\ FirstWellKnown # None => Some(launch[1].program) = FirstWellKnown
         /\ FirstWellKnown = None => launch[1].program = "node"

\* The override names a missing path, the first well-known path is missing
\* and the two others exist: the second one is run.
WitnessC12 ==
  /\ launch # <<>>
  /\ env.node # None
  /\ disk = {Candidates[2], Candidates[3]}
  /\ launch[1].program = Candidates[2]

\* -------------------------------------------------------------- keychain
\* The store itself failed: Entry::new or the operation returned an error
\* other than NoEntry.
StoreFailed == kc.reply \in StoreFailures \/ (kc.op # "none" /\ kc.reply = NotAsked)

\* C13: reading a profile id that has no entry succeeds with an absent value;
\* deleting one that has no entry succeeds, so that a delete leaves the same
\* outcome and the same store whether or not the entry was there; any
\* failure of the store other than "no entry" is returned as an error by
\* the read and by the delete.
TheoremC13 ==
  /\ (kc.op = "get" /\ kc.had = None /\ ~StoreFailed) => kc.out = KeyOk(None)
  /\ (kc.op = "delete" /\ ~StoreFailed) =>
       /\ kc.out = KeyOk(None)
       /\ store[kc.id] = None
  /\ (kc.op \in {"get", "delete"} /\ StoreFailed) =>
       /\ ~kc.out.ok
       /\ kc.out.err \in {f.kind : f \in StoreFailures}
       /\ store[kc.id] = kc.had

\* An entry was deleted, and deleted again.
WitnessC13 ==
  /\ kc.op = "delete"
  /\ kc.prev = "delete"
  /\ kc.had = None
  /\ kc.reply = NoEntry
  /\ kc.out.ok

\* ------------------------------------------------------------ one line
\* C14: a call consumes exactly one line: when the child has produced more
\* than one line by the time the call reads, the call takes the first, and
\* every further line stays in the stream, in order, for the following calls.
ClaimC14 ==
  [][ \A t \in Threads :
        (pc[t] = "read" /\ pc'[t] # "read" /\ pipe # <<>>) =>
          pipe' = Tail(pipe) ]_vars

\* ---------------------------------------------------------- no result
\* C17: a line that carries the call's own id and has neither an error
\* field nor a result field makes the call return success with JSON null.
TheoremC17 ==
  ( /\ returned.stage = "decode"
    /\ CarriesId(returned.line, UuidString(returned.id))
    /\ "error" \notin Keys(returned.line)
    /\ "result" \notin Keys(returned.line) )
  => returned.outcome = Ok(Null)

\* The child answered with the id alone.
WitnessC17 ==
  /\ returned.stage = "decode"
  /\ returned.line = ObjText(<<Member("id", Str(UuidString(returned.id)))>>)
  /\ returned.outcome.ok
  /\ returned.outcome.val = Null

\* ------------------------------------------------------ failed startup
\* C18 as stated: once spawn has returned an error, the child is not running.
ClaimC18 == host = "aborted" => child # "running"

\* C18: when the handshake fails after the child was spawned (a first line
\* that is not the readiness message, an unparsable one, or EOF), the handle
\* is dropped on the error return and a kill of the child is attempted: the
\* child is killed if the kill succeeds, and is still running afterwards
\* only if the kill itself failed.
TheoremC18 ==
  (host = "aborted" /\ firstLine # <<>>) =>
    /\ ~IsReadyText(firstLine[1])
    /\ killed \in KillResults
    /\ killed = "ok" => child = "killed"
    /\ child = "running" => killed = "err"

\* The first line was not JSON, and the child was killed on the error return.
WitnessC18 ==
  /\ host = "aborted"
  /\ firstLine = <<Garbage>>
  /\ killed = "ok"
  /\ child = "killed"

\* ------------------------------------------------- readiness before use
\* A host context has entered Bridge::call.
InCall(t) == pc[t] \in {"lockChild", "write", "read", "decode"}

\* C19: no request line is written before the readiness line has been read
\* and accepted: every step that writes a request, and every step by which a
\* host command enters Bridge::call, is taken on a handle that a successful
\* spawn returned, after the child was started and its first line was read
\* and found to be the readiness message.
TheoremC19 ==
  [][ (sent' # sent \/ \E t \in Threads : ~InCall(t) /\ InCall(t)') =>
        /\ host = "serving"
        /\ launch # <<>>
        /\ firstLine # <<>>
        /\ IsReadyText(firstLine[1])
        /\ killed = "no" ]_vars

\* The first request has been written, after the readiness line was read.
WitnessC19 ==
  /\ sent = 1
  /\ lastRequest # NoRequest
  /\ host = "serving"
  /\ firstLine = <<ReadyLine>>
  /\ \E t \in Threads : pc[t] = "read"

\* ---------------------------------------------------------------- locks
\* C20: every exit of a call releases both locks, whichever way the call
\* ends; the locks are always taken in the same order, the host-state lock
\* first and the child lock under it; so whenever no call is executing both
\* locks are free, and a caller that holds the host-state lock never finds
\* the child lock taken: callers cannot deadlock.
TheoremC20 ==
  /\ \A t \in Threads : stateLock = {t} <=> InCall(t)
  /\ \A t \in Threads : childLock = {t} <=> InFlight(t)
  /\ childLock # Free => childLock = stateLock
  /\ (\A t \in Threads : ~InCall(t)) => (stateLock = Free /\ childLock = Free)
  /\ \A t \in Threads : pc[t] = "lockChild" => CanLock(childLock)
  /\ (\E t \in Threads : pc[t] = "lockState") =>
       (CanLock(stateLock) \/ \E u \in Threads : InCall(u))

\* A call ended on a failed write while another context was waiting for the
\* host-state lock, and both locks are free.
WitnessC20 ==
  /\ returned.stage = "write"
  /\ ~returned.outcome.ok
  /\ stateLock = Free
  /\ childLock = Free
  /\ \E u \in Threads : pc[u] = "lockState"

\* ------------------------------------------------------------ no repair
\* A call returns a failure it found in the line it read: an unparsable
\* line, an id mismatch or a remote error.
FailsOnLine == returned' # returned /\ returned'.stage = "decode" /\ ~returned'.outcome.ok

\* A step writes at most one request line, and only as the write of a call;
\* the step on which a call fails on its line touches neither the stream, nor
\* the child, nor the handle.
NoRepairStep ==
  /\ sent' # sent =>
       /\ sent' = sent + 1
       /\ \E t \in Threads : pc[t] = "write" /\ pc'[t] = "read"
  /\ FailsOnLine =>
       /\ pipe' = pipe
       /\ sent' = sent
       /\ child' = child
       /\ host' = host
       /\ killed' = killed

\* The read of a call takes at most one line out of the stream.
OneLineStep ==
  \A t \in Threads :
    (pc[t] = "read" /\ pc'[t] # "read") => Len(pipe') >= Len(pipe) - 1

\* C16: no failure is retried or repaired: every call writes at most one
\* request line and reads at most one line whatever its outcome, and a call
\* that fails on its line leaves the stream undrained, the child running
\* and the handle usable, so that the next call writes its request and reads
\* the next line of the stream.
ClaimC16 == [][NoRepairStep /\ OneLineStep]_vars

\* ------------------------------------------------------------- progress
\* The child does not leave a call waiting for ever: again and again no call
\* is waiting on an empty, open stream.
ChildResponds == []<>(\A t \in Threads : ~Hung(t))

\* C15: under fair scheduling, if the child eventually emits a line or
\* closes its output for every request, then every call that was invoked
\* eventually returns, a read that ends on closed output returns an error,
\* and a caller blocked on the lock behind another call eventually gets the
\* lock and makes its own round trip.
TheoremC15 ==
  ChildResponds =>
    /\ \A t \in Threads : (pc[t] # "idle") ~> (pc[t] = "idle")
    /\ \A t \in Threads : (pc[t] = "lockState" /\ stateLock # Free) ~> InCall(t)
    /\ []((returned.stage = "decode" /\ returned.readAt = 0) => ~returned.outcome.ok)

\* A call ended in an error on closed output, and the context that was
\* waiting behind it has the lock.
WitnessC15 ==
  /\ returned.stage = "decode"
  /\ returned.line = EmptyLine
  /\ returned.readAt = 0
  /\ ~returned.outcome.ok
  /\ StdoutClosed
  /\ \E u \in Threads : InCall(u)

====
